---- MODULE Spec2Model ----
(***************************************************************************)
(* Model of frontend/src-tauri/src/lib.rs of rippermod-manager: the        *)
(* backend sidecar supervisor (spawn_sidecar, its output relay task and    *)
(* health poll thread, kill_sidecar, the setup and window-event hooks of   *)
(* run), the installation resolver (detect_game_paths and its scanners)    *)
(* and the game launcher (launch_game).                                    *)
(***************************************************************************)
EXTENDS Integers, Sequences, FiniteSets, TLC

\* ------------------------------------------------------------------ bounds

\* Window events delivered to on_window_event in one run of the application.
MaxWindowEvents == 2
\* Stdout/Stderr/Error events the worker's pipes produce before it exits.
MaxOutput == 1

\* Lines of libraryfolders.vdf read by one scan.
MaxVdfLines == 2
\* Subkeys enumerated under one Uninstall registry view.
MaxSubkeys == 1
\* Directory entries of the Epic manifests directory.
MaxManifests == 2
\* launch_game calls made by the GUI.
MaxLaunches == 2
\* Characters of a line given to extract_vdf_value on its own.
MaxLineLen == 7

\* --------------------------------------------------------- program constants

\* let max_attempts = 60;
max_attempts == 60

\* ------------------------------------------------------------------- state

VARIABLES
    setupPc,        \* "start" before the setup hook of run has run, then "done"
    spawnResult,    \* what spawn_sidecar returned: "none" (not called), "ok", "err"
    child,          \* BackendProcess.child: 0 is None, n > 0 is Some(handle n)
    poisoned,       \* whether Mutex<BackendProcess> is poisoned (lock() returns Err)
    worker,         \* the OS process of the sidecar: "none", "running", "exited"
                    \* (on its own), "killed" (by child.kill())
    spawnCount,     \* number of sidecar processes started so far
    kills,          \* the child.kill() calls issued, in order
    rx,             \* the CommandEvent channel from the worker to the relay task
    produced,       \* number of pipe events the worker has produced
    relayPc,        \* output relay task: "none", "running", "done"
    relayed,        \* number of events the relay task has taken from rx
    pollPc,         \* health poll thread: "none", "attempt", "sleep", "exhausted", "done"
    attempt,        \* the loop variable of the health poll
    attemptsMade,   \* number of health attempts performed
    successes,      \* number of health attempts that succeeded
    failPc,         \* delayed-emission thread of setup: "none", "sleeping", "done"
    emitted,        \* the GUI events emitted so far, in order
    winEvents,      \* number of window events handled
    mainDestroyed,  \* whether Destroyed has been delivered for the window "main"
    terminateCalls  \* number of kill_sidecar calls made

supVars == <<setupPc, spawnResult, child, poisoned, worker, spawnCount, kills, rx,
             produced, relayPc, relayed, pollPc, attempt, attemptsMade, successes,
             failPc, emitted, winEvents, mainDestroyed, terminateCalls>>

VARIABLES
    scanPc,         \* detect_game_paths: "idle", "steam", "gog", "epic", "common",
                    \* "dedup", "done"
    windows,        \* cfg(target_os = "windows")
    installed,      \* the directories that hold bin\x64\Cyberpunk2077.exe
    fault,          \* the scanner whose backing data is damaged in this scan
    candidates,     \* `results` as concatenated, before the retain
    expected,       \* the concatenation had the damaged item been absent
    results         \* `results` as returned

scanVars == <<scanPc, windows, installed, fault, candidates, expected, results>>

VARIABLES
    files,          \* the paths that exist on disk when launch_game runs
    launches,       \* number of launch_game calls made
    lastLaunch,     \* the last launch_game call: its arguments and what it did
    spawned         \* number of Command::spawn calls made by launch_game

launchVars == <<files, launches, lastLaunch, spawned>>

VARIABLES
    vdfLine,        \* the line extract_vdf_value is called with
    vdfValue        \* whether it was called, and the Option<String> it returned

vdfVars == <<vdfLine, vdfValue>>

vars == <<supVars, scanVars, launchVars, vdfVars>>

\* ------------------------------------------------------------------ helpers

Count(s, e) == Cardinality({i \in 1..Len(s) : s[i] = e})

Emit(topic) == emitted' = Append(emitted, topic)

\* ----------------------------------------------------------- initial state

\* .manage(Mutex::new(BackendProcess { child: None }))
InitSupervisor ==
    /\ setupPc = "start"
    /\ spawnResult = "none"
    /\ child = 0
    /\ worker = "none"
    /\ spawnCount = 0
    /\ kills = <<>>
    /\ rx = <<>>
    /\ produced = 0
    /\ relayPc = "none"
    /\ relayed = 0
    /\ pollPc = "none"
    /\ attempt = 0
    /\ attemptsMade = 0
    /\ successes = 0
    /\ failPc = "none"
    /\ emitted = <<>>
    /\ winEvents = 0
    /\ mainDestroyed = FALSE
    /\ terminateCalls = 0

ScanIdle ==
    /\ scanPc = "idle"
    /\ windows = TRUE
    /\ installed = {}
    /\ fault = "none"
    /\ candidates = <<>>
    /\ expected = <<>>
    /\ results = <<>>

LaunchIdle ==
    /\ files = {}
    /\ launches = 0
    /\ lastLaunch = [called |-> FALSE]
    /\ spawned = 0

VdfIdle ==
    /\ vdfLine = <<>>
    /\ vdfValue = [called |-> FALSE]

\* The mutex is only ever locked by spawn_sidecar and kill_sidecar, neither of
\* which can panic while holding the guard, so it is never poisoned.
Init ==
    /\ InitSupervisor
    /\ poisoned = FALSE
    /\ ScanIdle
    /\ LaunchIdle
    /\ VdfIdle

\* ------------------------------------------------------------------- paths

\* A string is a sequence of tokens: a path component, a separator, a quote, a
\* run of whitespace.  String operations act token by token.
Quote == "\""
BSlash == "\\"
FSlash == "/"
Tab == "\t"
\* The two characters \\ by which a .vdf file writes one backslash.
EscBSlash == "\\\\"

\* The tokens that hold upper-case letters, each with its lower-case form.
UpperLower ==
    { <<"C:", "c:">>, <<"D:", "d:">>, <<"E:", "e:">>, <<"G:", "g:">>,
      <<"Program Files (x86)", "program files (x86)">>,
      <<"Program Files", "program files">>,
      <<"Steam", "steam">>, <<"SteamLibrary", "steamlibrary">>,
      <<"GOG Games", "gog games">>, <<"Games", "games">>,
      <<"Cyberpunk 2077", "cyberpunk 2077">>,
      <<"Cyberpunk", "cyberpunk">>, <<"CYBERPUNK", "cyberpunk">>,
      <<"Goodies", "goodies">>, <<"The Witcher 3", "the witcher 3">>,
      <<"Cyberpunk2077.exe", "cyberpunk2077.exe">>,
      <<"REDprelauncher.exe", "redprelauncher.exe">>, <<"Windows", "windows">> }

\* char::to_lowercase on one token.
LowerToken(t) ==
    IF \E p \in UpperLower : p[1] = t
    THEN (CHOOSE p \in UpperLower : p[1] = t)[2]
    ELSE t

\* str::to_lowercase
to_lowercase(str) == [i \in 1..Len(str) |-> LowerToken(str[i])]

\* str::replace(from, to) for a one-token pattern.
replace(str, from, to) == [i \in 1..Len(str) |-> IF str[i] = from THEN to ELSE str[i]]

\* g.path.replace('/', "\\").to_lowercase()
Normalize(path) == to_lowercase(replace(path, FSlash, BSlash))

IsSeparator(t) == t = BSlash \/ t = FSlash

IsDrive(t) == t \in {"C:", "c:", "D:", "d:", "E:", "e:", "G:", "g:"}

IsAbsolute(path) == Len(path) >= 2 /\ IsDrive(path[1]) /\ IsSeparator(path[2])

\* Path::join on Windows: an absolute `rel` replaces the path; otherwise it is
\* appended, after a separator unless the path already ends with one.
Join(path, rel) ==
    IF IsAbsolute(rel) \/ path = <<>> THEN rel
    ELSE IF IsSeparator(path[Len(path)]) THEN path \o rel
    ELSE path \o <<BSlash>> \o rel

\* The directory a path names for the file system: case and the kind of
\* separator do not matter, nor does a trailing separator.
Canon(path) ==
    LET n == Normalize(path) IN
    IF n # <<>> /\ n[Len(n)] = BSlash THEN SubSeq(n, 1, Len(n) - 1) ELSE n

\* is_valid_cyberpunk_path: bin\x64\Cyberpunk2077.exe exists under path.
is_valid_cyberpunk_path(path) == Canon(path) \in installed

DetectedGame(path, source) == [path |-> path, source |-> source]

None == [some |-> FALSE]
Some(v) == [some |-> TRUE, value |-> v]

\* ---------------------------------------------------------------- scanners

\* Mutant of extract_vdf_value: one quoted token is enough (quotes.len() >= 2).
extract_vdf_value_TwoQuotes(line) ==
    LET quotes == {i \in 1..Len(line) : line[i] = Quote} IN
    IF Cardinality(quotes) >= 2
    THEN LET last == CHOOSE i \in quotes : \A j \in quotes : j <= i
             prev == CHOOSE i \in quotes \ {last} : \A j \in quotes \ {last} : j <= i
             start == prev + 1
             end == last
         IN IF start < end THEN Some(SubSeq(line, start, end - 1)) ELSE None
    ELSE None

\* extract_vdf_value: the text between the last two quotes of a line that holds
\* at least four quotes.
extract_vdf_value(line) ==
    LET quotes == {i \in 1..Len(line) : line[i] = Quote} IN
    IF Cardinality(quotes) >= 4
    THEN LET last == CHOOSE i \in quotes : \A j \in quotes : j <= i
             prev == CHOOSE i \in quotes \ {last} : \A j \in quotes \ {last} : j <= i
             start == prev + 1
             end == last
         IN IF start < end THEN Some(SubSeq(line, start, end - 1)) ELSE None
    ELSE None

IsSpace(t) == t = Tab \/ t = " "

\* str::trim
RECURSIVE trim(_)
trim(line) ==
    IF line = <<>> THEN line
    ELSE IF IsSpace(Head(line)) THEN trim(Tail(line))
    ELSE IF IsSpace(line[Len(line)]) THEN trim(SubSeq(line, 1, Len(line) - 1))
    ELSE line

starts_with(str, prefix) ==
    Len(str) >= Len(prefix) /\ SubSeq(str, 1, Len(prefix)) = prefix

\* detect_steam, the loop over content.lines(): the library roots named by the
\* "path" lines, each pushed unless already known (compared lower-cased).
RECURSIVE library_paths_of(_, _)
library_paths_of(lines, library_paths) ==
    IF lines = <<>> THEN library_paths
    ELSE LET trimmed == trim(Head(lines))
             path_value == IF starts_with(trimmed, <<Quote, "path", Quote>>)
                           THEN extract_vdf_value(trimmed)
                           ELSE None
             clean == replace(path_value.value, EscBSlash, BSlash)
         IN IF path_value.some
               /\ ~\E i \in 1..Len(library_paths) :
                       to_lowercase(library_paths[i]) = to_lowercase(clean)
            THEN library_paths_of(Tail(lines), Append(library_paths, clean))
            ELSE library_paths_of(Tail(lines), library_paths)

\* detect_steam, the loop over library_paths.
RECURSIVE probe_libraries(_)
probe_libraries(library_paths) ==
    IF library_paths = <<>> THEN <<>>
    ELSE LET game_path == Join(Join(Join(Head(library_paths), <<"steamapps">>),
                                    <<"common">>), <<"Cyberpunk 2077">>)
         IN (IF is_valid_cyberpunk_path(game_path)
             THEN <<DetectedGame(game_path, "Steam")>>
             ELSE <<>>) \o probe_libraries(Tail(library_paths))

\* detect_steam.  reg is HKCU\Software\Valve\Steam: whether the key opens and
\* its SteamPath value; vdf is libraryfolders.vdf: whether read_to_string
\* succeeds and its lines.
detect_steam(reg, vdf) ==
    IF ~reg.key THEN <<>>
    ELSE IF ~reg.SteamPath.some THEN <<>>
    ELSE LET steam_path == reg.SteamPath.value IN
         probe_libraries(IF vdf.readable
                         THEN library_paths_of(vdf.lines, <<steam_path>>)
                         ELSE <<steam_path>>)

\* lower.contains("cyberpunk") && lower.contains("2077")
is_cyberpunk(display_name) ==
    LET lower == to_lowercase(display_name) IN
    /\ \E i \in 1..Len(lower) : lower[i] = "cyberpunk"
    /\ \E i \in 1..Len(lower) : lower[i] = "2077"

\* detect_gog, the loop over uninstall.enum_keys() of one registry view.
RECURSIVE gog_subkeys(_)
gog_subkeys(subkeys) ==
    IF subkeys = <<>> THEN <<>>
    ELSE LET subkey == Head(subkeys)
             found ==
                 IF ~subkey.open THEN <<>>
                 ELSE IF ~subkey.DisplayName.some THEN <<>>
                 ELSE IF is_cyberpunk(subkey.DisplayName.value)
                         /\ subkey.InstallLocation.some
                         /\ is_valid_cyberpunk_path(subkey.InstallLocation.value)
                 THEN <<DetectedGame(subkey.InstallLocation.value, "GOG")>>
                 ELSE <<>>
         IN found \o gog_subkeys(Tail(subkeys))

\* detect_gog.  views holds, for each of the two Uninstall keys in turn, whether
\* it opens and its subkeys.
RECURSIVE detect_gog(_)
detect_gog(views) ==
    IF views = <<>> THEN <<>>
    ELSE (IF Head(views).open THEN gog_subkeys(Head(views).subkeys) ELSE <<>>)
         \o detect_gog(Tail(views))

\* Mutant of epic_entries: a file that cannot be read or parsed ends the loop
\* (`return results` where the code has `continue`).
RECURSIVE epic_entries_Return(_)
epic_entries_Return(entries) ==
    IF entries = <<>> THEN <<>>
    ELSE LET entry == Head(entries)
             json == entry.content
             display_name == IF json.DisplayName.some THEN json.DisplayName.value
                             ELSE <<>>
         IN IF entry.extension # "item" THEN epic_entries_Return(Tail(entries))
            ELSE IF ~entry.readable \/ ~json.valid THEN <<>>
            ELSE (IF is_cyberpunk(display_name)
                     /\ json.InstallLocation.some
                     /\ is_valid_cyberpunk_path(json.InstallLocation.value)
                  THEN <<DetectedGame(json.InstallLocation.value, "Epic")>>
                  ELSE <<>>) \o epic_entries_Return(Tail(entries))

\* detect_epic, the loop over the directory entries.
RECURSIVE epic_entries(_)
epic_entries(entries) ==
    IF entries = <<>> THEN <<>>
    ELSE LET entry == Head(entries)
             json == entry.content
             display_name == IF json.DisplayName.some THEN json.DisplayName.value
                             ELSE <<>>
             found ==
                 IF entry.extension # "item" THEN <<>>
                 ELSE IF ~entry.readable THEN <<>>
                 ELSE IF ~json.valid THEN <<>>
                 ELSE IF is_cyberpunk(display_name)
                         /\ json.InstallLocation.some
                         /\ is_valid_cyberpunk_path(json.InstallLocation.value)
                 THEN <<DetectedGame(json.InstallLocation.value, "Epic")>>
                 ELSE <<>>
         IN found \o epic_entries(Tail(entries))

\* detect_epic.  dir is the manifests directory: whether it exists, whether
\* read_dir succeeds, and its entries.
detect_epic(dir) ==
    IF ~dir.exists THEN <<>>
    ELSE IF ~dir.readable THEN <<>>
    ELSE epic_entries(dir.entries)

\* detect_common_paths: the hard-coded list.
common_paths ==
    << <<"C:", BSlash, "Program Files (x86)", BSlash, "Steam", BSlash, "steamapps",
         BSlash, "common", BSlash, "Cyberpunk 2077">>,
       <<"C:", BSlash, "Program Files", BSlash, "Steam", BSlash, "steamapps",
         BSlash, "common", BSlash, "Cyberpunk 2077">>,
       <<"C:", BSlash, "GOG Games", BSlash, "Cyberpunk 2077">>,
       <<"D:", BSlash, "SteamLibrary", BSlash, "steamapps", BSlash, "common",
         BSlash, "Cyberpunk 2077">>,
       <<"D:", BSlash, "Games", BSlash, "Cyberpunk 2077">>,
       <<"E:", BSlash, "SteamLibrary", BSlash, "steamapps", BSlash, "common",
         BSlash, "Cyberpunk 2077">>,
       <<"E:", BSlash, "Games", BSlash, "Cyberpunk 2077">>,
       <<"G:", BSlash, "SteamLibrary", BSlash, "steamapps", BSlash, "common",
         BSlash, "Cyberpunk 2077">> >>

RECURSIVE probe_common(_)
probe_common(paths) ==
    IF paths = <<>> THEN <<>>
    ELSE (IF is_valid_cyberpunk_path(Head(paths))
          THEN <<DetectedGame(Head(paths), "Common Path")>>
          ELSE <<>>) \o probe_common(Tail(paths))

detect_common_paths == probe_common(common_paths)

\* Mutant of retain: the set holds the paths as found, not normalized.
RECURSIVE retain_Raw(_, _)
retain_Raw(list, seen) ==
    IF list = <<>> THEN <<>>
    ELSE IF Head(list).path \in seen
         THEN retain_Raw(Tail(list), seen)
         ELSE <<Head(list)>> \o retain_Raw(Tail(list), seen \cup {Head(list).path})

\* results.retain(|g| seen.insert(normalized)): an entry is kept iff its
\* normalized path was not in `seen` yet.
RECURSIVE retain(_, _)
retain(list, seen) ==
    IF list = <<>> THEN <<>>
    ELSE LET normalized == Normalize(Head(list).path) IN
         IF normalized \in seen
         THEN retain(Tail(list), seen)
         ELSE <<Head(list)>> \o retain(Tail(list), seen \cup {normalized})

\* -------------------------------------------------------- scan environment

SeqsUpTo(S, n) == UNION {[1..k -> S] : k \in 0..n}

RemoveAt(seq, i) == SubSeq(seq, 1, i - 1) \o SubSeq(seq, i + 1, Len(seq))

\* The install directories that may exist on the machine.
InstallUniverse ==
    {Canon(common_paths[1]), Canon(common_paths[3]), Canon(common_paths[4])}

\* Values of the SteamPath registry value.
SteamPaths ==
    { <<"c:", FSlash, "program files (x86)", FSlash, "steam">>,
      <<"D:", BSlash, "SteamLibrary">> }

SteamRegs ==
    {[key |-> FALSE, SteamPath |-> None], [key |-> TRUE, SteamPath |-> None]}
    \cup {[key |-> TRUE, SteamPath |-> Some(p)] : p \in SteamPaths}

\* Lines of libraryfolders.vdf.
VdfLines ==
    { <<Tab, Quote, "path", Quote, Tab, Quote, "D:", EscBSlash, "SteamLibrary", Quote>>,
      <<Tab, Quote, "path", Quote, Tab, Quote, "d:", FSlash, "steamlibrary", Quote>>,
      <<Tab, Quote, "path", Quote, Tab, Quote, "C:", FSlash, "Program Files (x86)",
        FSlash, "Steam", Quote>>,
      <<Tab, Quote, "label", Quote, Tab, Quote, Quote>>,
      <<Tab, Quote, "path", Quote>> }

VdfFiles ==
    {[readable |-> FALSE, lines |-> <<>>]}
    \cup {[readable |-> TRUE, lines |-> l] : l \in SeqsUpTo(VdfLines, MaxVdfLines)}

GogDir == <<"C:", BSlash, "GOG Games", BSlash, "Cyberpunk 2077">>
GogDirAlt == <<"c:", FSlash, "gog games", FSlash, "cyberpunk 2077", FSlash>>
EpicDir == <<"C:", FSlash, "GOG Games", FSlash, "cyberpunk 2077">>

\* Subkeys of an Uninstall registry key.
Subkeys ==
    { [open |-> FALSE, DisplayName |-> None, InstallLocation |-> None],
      [open |-> TRUE, DisplayName |-> Some(<<"Cyberpunk", " ", "2077">>),
       InstallLocation |-> Some(GogDir)],
      [open |-> TRUE, DisplayName |-> Some(<<"CYBERPUNK", " ", "2077", " ", "Goodies">>),
       InstallLocation |-> Some(GogDirAlt)],
      [open |-> TRUE, DisplayName |-> Some(<<"Cyberpunk", " ", "2077">>),
       InstallLocation |-> None],
      [open |-> TRUE, DisplayName |-> Some(<<"The Witcher 3">>),
       InstallLocation |-> Some(GogDir)] }

RegistryViews ==
    {[open |-> FALSE, subkeys |-> <<>>]}
    \cup {[open |-> TRUE, subkeys |-> k] : k \in SeqsUpTo(Subkeys, MaxSubkeys)}

\* The parsed content of a manifest file.
Manifests ==
    { [valid |-> FALSE, DisplayName |-> None, InstallLocation |-> None],
      [valid |-> TRUE, DisplayName |-> Some(<<"Cyberpunk", " ", "2077">>),
       InstallLocation |-> Some(EpicDir)],
      [valid |-> TRUE, DisplayName |-> None, InstallLocation |-> Some(EpicDir)],
      [valid |-> TRUE, DisplayName |-> Some(<<"Cyberpunk", " ", "2077">>),
       InstallLocation |-> None] }

\* Entries of the manifests directory.
Unreadable == [valid |-> FALSE, DisplayName |-> None, InstallLocation |-> None]
DirEntries ==
    {[extension |-> "item", readable |-> TRUE, content |-> m] : m \in Manifests}
    \cup {[extension |-> "item", readable |-> FALSE, content |-> Unreadable]}
    \cup {[extension |-> "tmp", readable |-> TRUE, content |-> m] :
            m \in {x \in Manifests : x.valid /\ x.DisplayName.some
                                      /\ x.InstallLocation.some}}

ManifestDirs ==
    {[exists |-> FALSE, readable |-> FALSE, entries |-> <<>>],
     [exists |-> TRUE, readable |-> FALSE, entries |-> <<>>]}
    \cup {[exists |-> TRUE, readable |-> TRUE, entries |-> e] :
            e \in SeqsUpTo(DirEntries, MaxManifests)}

\* ------------------------------------------------------ detect_game_paths

Scanners == {"Steam", "GOG", "Epic"}

SupervisorIdle == UNCHANGED <<supVars, launchVars, vdfVars>>

\* detect_game_paths is called: `let mut results = Vec::new()`.
ScanStart ==
    /\ scanPc = "start"
    /\ scanPc' = IF windows THEN "steam" ELSE "common"
    /\ candidates' = <<>>
    /\ expected' = <<>>
    /\ UNCHANGED <<windows, installed, fault, results>>
    /\ SupervisorIdle

\* results.extend(..) of one scanner's result; `without` is what the scanner
\* yields when the damaged item of its backing data is absent instead.
Extend(found, without, next) ==
    /\ candidates' = candidates \o found
    /\ expected' = expected \o without
    /\ scanPc' = next
    /\ UNCHANGED <<windows, installed, fault, results>>
    /\ SupervisorIdle

\* results.extend(detect_steam())
ScanSteam ==
    /\ scanPc = "steam"
    /\ \E reg \in SteamRegs, vdf \in VdfFiles :
         IF fault = "Steam"
         THEN /\ reg.key /\ reg.SteamPath.some /\ vdf.readable
              /\ \E damage \in {"key", "value", "vdf"} :
                   LET found ==
                           detect_steam(
                               [key |-> damage # "key",
                                SteamPath |-> IF damage = "value" THEN None
                                              ELSE reg.SteamPath],
                               [readable |-> damage # "vdf", lines |-> vdf.lines])
                       without ==
                           IF damage = "vdf"
                           THEN detect_steam(reg, [readable |-> TRUE, lines |-> <<>>])
                           ELSE <<>>
                   IN Extend(found, without, "gog")
         ELSE Extend(detect_steam(reg, vdf), detect_steam(reg, vdf), "gog")

\* results.extend(detect_gog())
ScanGog ==
    /\ scanPc = "gog"
    /\ \E v1 \in RegistryViews, v2 \in RegistryViews :
         LET views == <<v1, v2>> IN
         IF fault = "GOG"
         THEN /\ v1.open /\ v2.open
              /\ \A i \in 1..2 : \A j \in 1..Len(views[i].subkeys) :
                     views[i].subkeys[j].open /\ views[i].subkeys[j].DisplayName.some
              /\ \/ \E i \in 1..2 :
                       Extend(detect_gog([views EXCEPT ![i].open = FALSE]),
                              detect_gog([views EXCEPT ![i].subkeys = <<>>]), "epic")
                 \/ \E i \in 1..2 : \E j \in 1..Len(views[i].subkeys) :
                    \E damage \in {"open", "DisplayName"} :
                       LET subkey == views[i].subkeys[j]
                           broken == IF damage = "open"
                                     THEN [subkey EXCEPT !.open = FALSE]
                                     ELSE [subkey EXCEPT !.DisplayName = None]
                       IN Extend(detect_gog([views EXCEPT ![i].subkeys[j] = broken]),
                                 detect_gog([views EXCEPT
                                                ![i].subkeys = RemoveAt(@, j)]),
                                 "epic")
         ELSE Extend(detect_gog(views), detect_gog(views), "epic")

\* results.extend(detect_epic())
ScanEpic ==
    /\ scanPc = "epic"
    /\ \E dir \in ManifestDirs :
         IF fault = "Epic"
         THEN /\ dir.exists /\ dir.readable
              /\ \A i \in 1..Len(dir.entries) :
                     dir.entries[i].readable /\ dir.entries[i].content.valid
              /\ \/ \E damage \in {"exists", "readable"} :
                       Extend(detect_epic([dir EXCEPT ![damage] = FALSE]),
                              <<>>, "common")
                 \/ \E i \in 1..Len(dir.entries) :
                    \E damage \in {"unreadable", "malformed"} :
                       LET broken ==
                               [extension |-> dir.entries[i].extension,
                                readable |-> damage # "unreadable",
                                content |-> Unreadable]
                       IN Extend(detect_epic([dir EXCEPT !.entries[i] = broken]),
                                 detect_epic([dir EXCEPT !.entries = RemoveAt(@, i)]),
                                 "common")
         ELSE Extend(detect_epic(dir), detect_epic(dir), "common")

\* Mutant of ScanCommon: the static paths are put in front of the platform
\* scanners' results instead of after them.
ScanCommon_First ==
    /\ scanPc = "common"
    /\ candidates' = detect_common_paths \o candidates
    /\ expected' = detect_common_paths \o expected
    /\ scanPc' = "dedup"
    /\ UNCHANGED <<windows, installed, fault, results>>
    /\ SupervisorIdle

\* results.extend(detect_common_paths())
ScanCommon ==
    /\ scanPc = "common"
    /\ Extend(detect_common_paths, detect_common_paths, "dedup")

\* The retain over `results`, and the return.
ScanDedup ==
    /\ scanPc = "dedup"
    /\ scanPc' = "done"
    /\ results' = retain(candidates, {})
    /\ UNCHANGED <<windows, installed, fault, candidates, expected>>
    /\ SupervisorIdle

InitScan ==
    /\ scanPc = "start"
    /\ windows \in BOOLEAN
    /\ installed \in SUBSET InstallUniverse
    /\ fault \in (IF windows THEN Scanners \cup {"none"} ELSE {"none"})
    /\ candidates = <<>>
    /\ expected = <<>>
    /\ results = <<>>
    /\ InitSupervisor
    /\ poisoned = FALSE
    /\ LaunchIdle
    /\ VdfIdle

NextScan ==
    \/ ScanStart
    \/ ScanSteam
    \/ ScanGog
    \/ ScanEpic
    \/ ScanCommon
    \/ ScanDedup

SpecScan == InitScan /\ [][NextScan]_vars

\* -------------------------------------------------------------- launch_game

\* Mutant of launch_game: the exists() check is missing.
launch_game_NoCheck(install_path, exe_relative_path, launch_args, spawnOk) ==
    LET exe_path == Join(install_path, exe_relative_path) IN
    /\ spawned' = spawned + 1
    /\ lastLaunch' =
           [called |-> TRUE, install_path |-> install_path,
            exe_relative_path |-> exe_relative_path, launch_args |-> launch_args,
            program |-> Some(exe_path),
            args |-> IF launch_args.some THEN launch_args.value ELSE <<>>,
            waited |-> FALSE,
            result |-> IF spawnOk THEN "Ok" ELSE "Failed to launch game"]

\* launch_game: spawnOk is whether cmd.spawn() succeeds.  The Child is dropped,
\* never waited for.
launch_game(install_path, exe_relative_path, launch_args, spawnOk) ==
    LET exe_path == Join(install_path, exe_relative_path) IN
    IF Canon(exe_path) \notin files
    THEN /\ spawned' = spawned
         /\ lastLaunch' =
                [called |-> TRUE, install_path |-> install_path,
                 exe_relative_path |-> exe_relative_path,
                 launch_args |-> launch_args,
                 program |-> None, args |-> <<>>, waited |-> FALSE,
                 result |-> "Game executable not found"]
    ELSE /\ spawned' = spawned + 1
         /\ lastLaunch' =
                [called |-> TRUE, install_path |-> install_path,
                 exe_relative_path |-> exe_relative_path,
                 launch_args |-> launch_args,
                 program |-> Some(exe_path),
                 args |-> IF launch_args.some THEN launch_args.value ELSE <<>>,
                 waited |-> FALSE,
                 result |-> IF spawnOk THEN "Ok" ELSE "Failed to launch game"]

\* Arguments the GUI passes to launch_game.
InstallPaths == {GogDir, GogDirAlt, common_paths[4]}
ExePaths ==
    { <<"bin", BSlash, "x64", BSlash, "Cyberpunk2077.exe">>,
      <<"REDprelauncher.exe">>,
      <<"C:", BSlash, "Windows", BSlash, "notepad.exe">> }
LaunchArgs == {None, Some(<<>>), Some(<<"-modded", "--launcher-skip">>)}

\* The files that may exist when the game is launched.
LaunchFiles ==
    { Canon(Join(GogDir, <<"bin", BSlash, "x64", BSlash, "Cyberpunk2077.exe">>)),
      Canon(Join(GogDir, <<"REDprelauncher.exe">>)),
      Canon(Join(common_paths[4], <<"bin", BSlash, "x64", BSlash, "Cyberpunk2077.exe">>)),
      Canon(<<"C:", BSlash, "Windows", BSlash, "notepad.exe">>) }

\* The GUI invokes the launch_game command.
LaunchGame ==
    /\ launches < MaxLaunches
    /\ launches' = launches + 1
    /\ \E install_path \in InstallPaths, exe_relative_path \in ExePaths,
          launch_args \in LaunchArgs, spawnOk \in BOOLEAN :
         launch_game(install_path, exe_relative_path, launch_args, spawnOk)
    /\ UNCHANGED <<files, supVars, scanVars, vdfVars>>

\* Between two launches files appear (an install) or vanish (an uninstall).
FilesChange ==
    /\ launches < MaxLaunches
    /\ \E f \in LaunchFiles :
         files' = IF f \in files THEN files \ {f} ELSE files \cup {f}
    /\ UNCHANGED <<launches, lastLaunch, spawned, supVars, scanVars, vdfVars>>

InitLaunch ==
    /\ files \in SUBSET LaunchFiles
    /\ launches = 0
    /\ lastLaunch = [called |-> FALSE]
    /\ spawned = 0
    /\ InitSupervisor
    /\ poisoned = FALSE
    /\ ScanIdle
    /\ VdfIdle

NextLaunch ==
    \/ LaunchGame
    \/ FilesChange

SpecLaunch == InitLaunch /\ [][NextLaunch]_vars

\* ------------------------------------------------- extract_vdf_value alone

\* The characters a line is made of: the quote, white space, a key, a value.
VdfTokens == {Quote, Tab, "path", "D:"}

LinesUpTo(n) == UNION {[1..k -> VdfTokens] : k \in 0..n}

\* extract_vdf_value(trimmed), as detect_steam calls it on one line.
ExtractVdf ==
    /\ ~vdfValue.called
    /\ vdfValue' = [called |-> TRUE, value |-> extract_vdf_value(vdfLine)]
    /\ UNCHANGED <<vdfLine, supVars, scanVars, launchVars>>

InitVdf ==
    /\ vdfLine \in LinesUpTo(MaxLineLen)
    /\ vdfValue = [called |-> FALSE]
    /\ InitSupervisor
    /\ poisoned = FALSE
    /\ ScanIdle
    /\ LaunchIdle

NextVdf == ExtractVdf

SpecVdf == InitVdf /\ [][NextVdf]_vars

\* --------------------------------------------------------------- supervisor

\* Mutant of spawn_sidecar: the health poll thread is started before the `?`
\* of sidecar_command.spawn(), so it also runs when the spawn failed.
spawn_sidecar_PollBeforeSpawn(sidecarOk, spawnOk) ==
    IF ~sidecarOk \/ ~spawnOk
    THEN /\ spawnResult' = "err"
         /\ pollPc' = IF sidecarOk THEN "attempt" ELSE pollPc
         /\ attempt' = IF sidecarOk THEN 1 ELSE attempt
         /\ UNCHANGED <<child, worker, spawnCount, rx, relayPc>>
    ELSE /\ spawnResult' = "ok"
         /\ worker' = "running"
         /\ spawnCount' = spawnCount + 1
         /\ rx' = <<>>
         /\ child' = IF poisoned THEN child ELSE spawnCount + 1
         /\ relayPc' = "running"
         /\ pollPc' = "attempt"
         /\ attempt' = 1

\* Mutant of spawn_sidecar: the lock result is propagated (`state.lock()?`), so
\* a poisoned mutex makes spawn_sidecar return Err after the process started.
spawn_sidecar_LockErr(sidecarOk, spawnOk) ==
    IF ~sidecarOk \/ ~spawnOk
    THEN /\ spawnResult' = "err"
         /\ UNCHANGED <<child, worker, spawnCount, rx, relayPc, pollPc, attempt>>
    ELSE /\ worker' = "running"
         /\ spawnCount' = spawnCount + 1
         /\ rx' = <<>>
         /\ IF poisoned
            THEN /\ spawnResult' = "err"
                 /\ UNCHANGED <<child, relayPc, pollPc, attempt>>
            ELSE /\ spawnResult' = "ok"
                 /\ child' = spawnCount + 1
                 /\ relayPc' = "running"
                 /\ pollPc' = "attempt"
                 /\ attempt' = 1

\* spawn_sidecar: sidecarOk is the result of shell().sidecar(..), spawnOk that of
\* sidecar_command.spawn().
spawn_sidecar(sidecarOk, spawnOk) ==
    IF ~sidecarOk \/ ~spawnOk
    THEN \* the `?` returns Err before anything is stored or started
         /\ spawnResult' = "err"
         /\ UNCHANGED <<child, worker, spawnCount, rx, relayPc, pollPc, attempt>>
    ELSE /\ spawnResult' = "ok"
         /\ worker' = "running"
         /\ spawnCount' = spawnCount + 1
         /\ rx' = <<>>
         /\ child' = IF poisoned THEN child ELSE spawnCount + 1
         /\ relayPc' = "running"
         /\ pollPc' = "attempt"
         /\ attempt' = 1

\* Mutant of SetupBody: the delayed backend-startup-failed thread is started
\* whatever spawn_sidecar returned.
SetupBody_AlwaysFail ==
    /\ setupPc' = "done"
    /\ \E release \in BOOLEAN, sidecarOk \in BOOLEAN, spawnOk \in BOOLEAN :
         IF release
         THEN /\ spawn_sidecar(sidecarOk, spawnOk)
              /\ failPc' = "sleeping"
         ELSE UNCHANGED <<spawnResult, child, worker, spawnCount, rx, relayPc,
                          pollPc, attempt, failPc>>
    /\ UNCHANGED <<poisoned, kills, produced, relayed, attemptsMade, successes,
                   emitted, winEvents, mainDestroyed, terminateCalls,
                   scanVars, launchVars, vdfVars>>

\* The body of the setup closure of run: spawns the sidecar in release builds
\* only, and on Err starts the thread that emits backend-startup-failed after 2 s.
SetupBody ==
    /\ setupPc' = "done"
    /\ \E release \in BOOLEAN, sidecarOk \in BOOLEAN, spawnOk \in BOOLEAN :
         IF release
         THEN /\ spawn_sidecar(sidecarOk, spawnOk)
              /\ failPc' = IF spawnResult' = "err" THEN "sleeping" ELSE failPc
         ELSE UNCHANGED <<spawnResult, child, worker, spawnCount, rx, relayPc,
                          pollPc, attempt, failPc>>
    /\ UNCHANGED <<poisoned, kills, produced, relayed, attemptsMade, successes,
                   emitted, winEvents, mainDestroyed, terminateCalls,
                   scanVars, launchVars, vdfVars>>

\* Mutant of Setup: the sidecar is spawned again whenever the hook is re-entered.
Setup_Respawn == SetupBody

\* The framework calls the setup closure once, at application start.
Setup ==
    /\ setupPc = "start"
    /\ SetupBody

\* The thread spawned by setup on Err: sleep 2 s, then emit.
FailEmit ==
    /\ failPc = "sleeping"
    /\ failPc' = "done"
    /\ Emit("backend-startup-failed")
    /\ UNCHANGED <<setupPc, spawnResult, child, poisoned, worker, spawnCount, kills,
                   rx, produced, relayPc, relayed, pollPc, attempt, attemptsMade,
                   successes, winEvents, mainDestroyed, terminateCalls,
                   scanVars, launchVars, vdfVars>>

\* One health attempt (the body of the `if let Ok(..) = connect` chain): it
\* succeeds iff the connection opens, the request is written, the response is
\* read to the end and contains both "200" and "healthy".
HealthOk(connectOk, writeOk, readOk, has200, hasHealthy) ==
    connectOk /\ writeOk /\ readOk /\ has200 /\ hasHealthy

\* Mutant of PollAttempt: the `return` after emitting backend-ready is missing.
PollAttempt_NoReturn ==
    /\ pollPc = "attempt"
    /\ attemptsMade' = attemptsMade + 1
    /\ pollPc' = "sleep"
    /\ \E connectOk \in BOOLEAN, writeOk \in BOOLEAN, readOk \in BOOLEAN,
          has200 \in BOOLEAN, hasHealthy \in BOOLEAN :
         IF HealthOk(connectOk, writeOk, readOk, has200, hasHealthy)
         THEN /\ successes' = successes + 1
              /\ Emit("backend-ready")
         ELSE UNCHANGED <<successes, emitted>>
    /\ UNCHANGED <<setupPc, spawnResult, child, poisoned, worker, spawnCount, kills,
                   rx, produced, relayPc, relayed, attempt, failPc, winEvents,
                   mainDestroyed, terminateCalls,
                   scanVars, launchVars, vdfVars>>

\* Mutant of PollAttempt: the poll thread is cancelled once the relay task has
\* seen the worker's stream end.
PollAttempt_Cancelled ==
    /\ pollPc = "attempt"
    /\ relayPc = "running"
    /\ attemptsMade' = attemptsMade + 1
    /\ \E connectOk \in BOOLEAN, writeOk \in BOOLEAN, readOk \in BOOLEAN,
          has200 \in BOOLEAN, hasHealthy \in BOOLEAN :
         IF HealthOk(connectOk, writeOk, readOk, has200, hasHealthy)
         THEN /\ successes' = successes + 1
              /\ Emit("backend-ready")
              /\ pollPc' = "done"
         ELSE /\ pollPc' = "sleep"
              /\ UNCHANGED <<successes, emitted>>
    /\ UNCHANGED <<setupPc, spawnResult, child, poisoned, worker, spawnCount, kills,
                   rx, produced, relayPc, relayed, attempt, failPc, winEvents,
                   mainDestroyed, terminateCalls,
                   scanVars, launchVars, vdfVars>>

\* Health poll thread, one iteration of `for attempt in 1..=max_attempts` up to
\* the sleep: on success emit backend-ready and return.
PollAttempt ==
    /\ pollPc = "attempt"
    /\ attemptsMade' = attemptsMade + 1
    /\ \E connectOk \in BOOLEAN, writeOk \in BOOLEAN, readOk \in BOOLEAN,
          has200 \in BOOLEAN, hasHealthy \in BOOLEAN :
         IF HealthOk(connectOk, writeOk, readOk, has200, hasHealthy)
         THEN /\ successes' = successes + 1
              /\ Emit("backend-ready")
              /\ pollPc' = "done"
         ELSE /\ pollPc' = "sleep"
              /\ UNCHANGED <<successes, emitted>>
    /\ UNCHANGED <<setupPc, spawnResult, child, poisoned, worker, spawnCount, kills,
                   rx, produced, relayPc, relayed, attempt, failPc, winEvents,
                   mainDestroyed, terminateCalls,
                   scanVars, launchVars, vdfVars>>

\* Mutant of PollSleep: the loop range is 0..=max_attempts (one attempt too many).
PollSleep_OffByOne ==
    /\ pollPc = "sleep"
    /\ IF attempt <= max_attempts
       THEN attempt' = attempt + 1 /\ pollPc' = "attempt"
       ELSE attempt' = attempt /\ pollPc' = "exhausted"
    /\ UNCHANGED <<setupPc, spawnResult, child, poisoned, worker, spawnCount, kills,
                   rx, produced, relayPc, relayed, attemptsMade, successes, failPc,
                   emitted, winEvents, mainDestroyed, terminateCalls,
                   scanVars, launchVars, vdfVars>>

\* std::thread::sleep(delay), then the loop's next iteration or its end.
PollSleep ==
    /\ pollPc = "sleep"
    /\ IF attempt < max_attempts
       THEN attempt' = attempt + 1 /\ pollPc' = "attempt"
       ELSE attempt' = attempt /\ pollPc' = "exhausted"
    /\ UNCHANGED <<setupPc, spawnResult, child, poisoned, worker, spawnCount, kills,
                   rx, produced, relayPc, relayed, attemptsMade, successes, failPc,
                   emitted, winEvents, mainDestroyed, terminateCalls,
                   scanVars, launchVars, vdfVars>>

\* After the loop: emit backend-startup-failed; the thread ends.
PollExhausted ==
    /\ pollPc = "exhausted"
    /\ pollPc' = "done"
    /\ Emit("backend-startup-failed")
    /\ UNCHANGED <<setupPc, spawnResult, child, poisoned, worker, spawnCount, kills,
                   rx, produced, relayPc, relayed, attempt, attemptsMade, successes,
                   failPc, winEvents, mainDestroyed, terminateCalls,
                   scanVars, launchVars, vdfVars>>

\* What the worker's side of the channel does with an event: the send fails
\* once the relay task has dropped the receiver.
Send(ev) == IF relayPc = "running" THEN Append(rx, ev) ELSE rx

\* The worker writes a line to stdout or stderr, or a pipe read fails.
WorkerOutput ==
    /\ worker = "running"
    /\ produced < MaxOutput
    /\ produced' = produced + 1
    /\ \E ev \in {"Stdout", "Stderr", "Error"} : rx' = Send(ev)
    /\ UNCHANGED <<setupPc, spawnResult, child, poisoned, worker, spawnCount, kills,
                   relayPc, relayed, pollPc, attempt, attemptsMade, successes,
                   failPc, emitted, winEvents, mainDestroyed, terminateCalls,
                   scanVars, launchVars, vdfVars>>

\* The worker process exits on its own (cleanly or by crashing).
WorkerExit ==
    /\ worker = "running"
    /\ worker' = "exited"
    /\ rx' = Send("Terminated")
    /\ UNCHANGED <<setupPc, spawnResult, child, poisoned, spawnCount, kills,
                   produced, relayPc, relayed, pollPc, attempt, attemptsMade,
                   successes, failPc, emitted, winEvents, mainDestroyed, terminateCalls,
                   scanVars, launchVars, vdfVars>>

\* Mutant of RelayRecv: the `break` of the Terminated arm is missing.
RelayRecv_NoBreak ==
    /\ relayPc = "running"
    /\ rx # <<>>
    /\ relayed' = relayed + 1
    /\ LET event == Head(rx) IN
         IF event = "Terminated"
         THEN /\ Emit("backend-crashed")
              /\ rx' = Tail(rx)
              /\ UNCHANGED relayPc
         ELSE IF event = "Error"
         THEN /\ relayPc' = "done"
              /\ rx' = <<>>
              /\ UNCHANGED emitted
         ELSE /\ rx' = Tail(rx)
              /\ UNCHANGED <<relayPc, emitted>>
    /\ UNCHANGED <<setupPc, spawnResult, child, poisoned, worker, spawnCount, kills,
                   produced, pollPc, attempt, attemptsMade, successes, failPc,
                   winEvents, mainDestroyed, terminateCalls,
                   scanVars, launchVars, vdfVars>>

\* Mutant of RelayRecv: the Error arm reports a crash to the GUI as well.
RelayRecv_ErrorEmits ==
    /\ relayPc = "running"
    /\ rx # <<>>
    /\ relayed' = relayed + 1
    /\ LET event == Head(rx) IN
         IF event \in {"Terminated", "Error"}
         THEN /\ Emit("backend-crashed")
              /\ relayPc' = "done"
              /\ rx' = <<>>
         ELSE /\ rx' = Tail(rx)
              /\ UNCHANGED <<relayPc, emitted>>
    /\ UNCHANGED <<setupPc, spawnResult, child, poisoned, worker, spawnCount, kills,
                   produced, pollPc, attempt, attemptsMade, successes, failPc,
                   winEvents, mainDestroyed, terminateCalls,
                   scanVars, launchVars, vdfVars>>

\* Output relay task: one iteration of `while let Some(event) = rx.recv().await`.
RelayRecv ==
    /\ relayPc = "running"
    /\ rx # <<>>
    /\ relayed' = relayed + 1
    /\ LET event == Head(rx) IN
         IF event = "Terminated"
         THEN /\ Emit("backend-crashed")
              /\ relayPc' = "done"
              /\ rx' = <<>>
         ELSE IF event = "Error"
         THEN /\ relayPc' = "done"
              /\ rx' = <<>>
              /\ UNCHANGED emitted
         ELSE /\ rx' = Tail(rx)
              /\ UNCHANGED <<relayPc, emitted>>
    /\ UNCHANGED <<setupPc, spawnResult, child, poisoned, worker, spawnCount, kills,
                   produced, pollPc, attempt, attemptsMade, successes, failPc,
                   winEvents, mainDestroyed, terminateCalls,
                   scanVars, launchVars, vdfVars>>

\* Mutant of kill_sidecar: the handle is borrowed (as_ref) instead of taken.
kill_sidecar_NoTake(killOk) ==
    /\ terminateCalls' = terminateCalls + 1
    /\ IF ~poisoned /\ child # 0
       THEN /\ child' = child
            /\ kills' = Append(kills, [handle |-> child, lockHeld |-> TRUE,
                                       ok |-> killOk])
            /\ IF killOk /\ worker = "running"
               THEN worker' = "killed" /\ rx' = Send("Terminated")
               ELSE UNCHANGED <<worker, rx>>
       ELSE UNCHANGED <<child, kills, worker, rx>>

\* Mutant of kill_sidecar: the result of child.kill() is looked at, and the
\* handle is put back when the kill failed.
kill_sidecar_PutBack(killOk) ==
    /\ terminateCalls' = terminateCalls + 1
    /\ IF ~poisoned /\ child # 0
       THEN /\ child' = IF killOk THEN 0 ELSE child
            /\ kills' = Append(kills, [handle |-> child, lockHeld |-> TRUE,
                                       ok |-> killOk])
            /\ IF killOk /\ worker = "running"
               THEN worker' = "killed" /\ rx' = Send("Terminated")
               ELSE UNCHANGED <<worker, rx>>
       ELSE UNCHANGED <<child, kills, worker, rx>>

\* kill_sidecar: killOk is the (ignored) result of child.kill().  The kill is
\* issued inside the match arm, while the MutexGuard is still alive.
kill_sidecar(killOk) ==
    /\ terminateCalls' = terminateCalls + 1
    /\ IF ~poisoned /\ child # 0
       THEN /\ child' = 0
            /\ kills' = Append(kills, [handle |-> child, lockHeld |-> TRUE,
                                       ok |-> killOk])
            /\ IF killOk /\ worker = "running"
               THEN worker' = "killed" /\ rx' = Send("Terminated")
               ELSE UNCHANGED <<worker, rx>>
       ELSE UNCHANGED <<child, kills, worker, rx>>

WindowLabels == {"main", "settings"}
WindowEvents == {"Destroyed", "CloseRequested", "Focused"}

\* Mutant of on_window_event: the closure matches CloseRequested, not Destroyed.
on_window_event_CloseRequested(label, event, killOk) ==
    IF event = "CloseRequested" /\ label = "main"
    THEN kill_sidecar(killOk)
    ELSE UNCHANGED <<terminateCalls, child, kills, worker, rx>>

\* Mutant of on_window_event: the label of the window is not looked at.
on_window_event_AnyLabel(label, event, killOk) ==
    IF event = "Destroyed"
    THEN kill_sidecar(killOk)
    ELSE UNCHANGED <<terminateCalls, child, kills, worker, rx>>

\* The on_window_event closure of run.
on_window_event(label, event, killOk) ==
    IF event = "Destroyed" /\ label = "main"
    THEN kill_sidecar(killOk)
    ELSE UNCHANGED <<terminateCalls, child, kills, worker, rx>>

\* The GUI shell delivers a window event once the application is running.
WindowEvent ==
    /\ setupPc = "done"
    /\ winEvents < MaxWindowEvents
    /\ winEvents' = winEvents + 1
    /\ \E label \in WindowLabels, event \in WindowEvents, killOk \in BOOLEAN :
         /\ on_window_event(label, event, killOk)
         /\ mainDestroyed' = (mainDestroyed \/ (label = "main" /\ event = "Destroyed"))
    /\ UNCHANGED <<setupPc, spawnResult, poisoned, spawnCount, produced, relayPc,
                   relayed, pollPc, attempt, attemptsMade, successes, failPc,
                   emitted, scanVars, launchVars, vdfVars>>

Next ==
    \/ Setup
    \/ FailEmit
    \/ PollAttempt
    \/ PollSleep
    \/ PollExhausted
    \/ WorkerOutput
    \/ WorkerExit
    \/ RelayRecv
    \/ WindowEvent

Spec == Init /\ [][Next]_vars

\* The Err arms of state.lock() in spawn_sidecar and kill_sidecar: they are taken
\* only when a thread has panicked while holding the guard, which poisons the
\* mutex for good.  Nothing in lib.rs does so; the panic is an outside fault.
LockPoisoned ==
    /\ ~poisoned
    /\ poisoned' = TRUE
    /\ UNCHANGED <<setupPc, spawnResult, child, worker, spawnCount, kills, rx,
                   produced, relayPc, relayed, pollPc, attempt, attemptsMade,
                   successes, failPc, emitted, winEvents, mainDestroyed,
                   terminateCalls, scanVars, launchVars, vdfVars>>

NextLockFail ==
    \/ Setup
    \/ FailEmit
    \/ PollAttempt
    \/ PollSleep
    \/ PollExhausted
    \/ WorkerOutput
    \/ WorkerExit
    \/ RelayRecv
    \/ WindowEvent
    \/ LockPoisoned

\* The supervisor with the lock fault admitted, before or after the spawn.
SpecLockFail == Init /\ [][NextLockFail]_vars

\* The relay task, the poll thread and the delayed-emission thread are scheduled
\* by the async runtime and the OS: each keeps running while it has a step to take.
FairSpec ==
    /\ Spec
    /\ WF_vars(FailEmit)
    /\ WF_vars(PollAttempt)
    /\ WF_vars(PollSleep)
    /\ WF_vars(PollExhausted)
    /\ WF_vars(RelayRecv)

\* ------------------------------------------------------------ scan properties

\* The positions of a list whose normalized path occurs at no earlier position.
FirstOccurrences(list) ==
    {i \in 1..Len(list) :
        \A j \in 1..(i - 1) : Normalize(list[j].path) # Normalize(list[i].path)}

\* The entries of a list at the given positions, in the order of the list.
AtPositions(list, positions) ==
    [k \in 1..Cardinality(positions) |->
        list[CHOOSE i \in positions : Cardinality({j \in positions : j <= i}) = k]]

NormalizedPaths(list) == {Normalize(list[i].path) : i \in 1..Len(list)}

\* C8: the list detect_game_paths returns holds exactly one entry for each
\* normalized path (slashes to backslashes, then lower case) of the concatenated
\* candidates: the first candidate with that normalized path, whatever its
\* source; the survivors keep the order in which they were found.
C8_Dedup ==
    (scanPc = "done") =>
        /\ results = AtPositions(candidates, FirstOccurrences(candidates))
        /\ NormalizedPaths(results) = NormalizedPaths(candidates)
        /\ \A i, j \in 1..Len(results) :
               (i # j) => Normalize(results[i].path) # Normalize(results[j].path)
C8_Witness ==
    /\ scanPc = "done"
    /\ Len(results) >= 2
    /\ \E i, j \in 1..Len(candidates) :
           /\ i < j
           /\ candidates[i].path # candidates[j].path
           /\ candidates[i].source # candidates[j].source
           /\ Normalize(candidates[i].path) = Normalize(candidates[j].path)
           /\ \E k \in 1..Len(candidates) : k > j /\ k \in FirstOccurrences(candidates)

\* C9: when the backing data of one scanner fails (registry key or value
\* missing, manifest directory or file unreadable, malformed JSON), the failed
\* scanner, registry view, subkey or file contributes nothing, and the candidates
\* of the scan, those of every other scanner included, are the ones found when the
\* failed item is simply absent; so is the list returned.
C9_Isolation ==
    /\ candidates = expected
    /\ (scanPc = "done") =>
           results = AtPositions(expected, FirstOccurrences(expected))
C9_Witness ==
    /\ scanPc = "done"
    /\ fault = "Epic"
    /\ \E i \in 1..Len(results) : results[i].source = "Epic"
    /\ \E i \in 1..Len(results) : results[i].source = "Steam"
    /\ \E i \in 1..Len(results) : results[i].source = "GOG"
    /\ \E i \in 1..Len(results) : results[i].source = "Common Path"

\* The place of a source in the order of the extend calls.
Rank(source) ==
    CASE source = "Steam" -> 1
      [] source = "GOG" -> 2
      [] source = "Epic" -> 3
      [] source = "Common Path" -> 4

C17_Order ==
    /\ \A i, j \in 1..Len(candidates) :
           (i < j) => Rank(candidates[i].source) <= Rank(candidates[j].source)
    /\ ~windows => \A i \in 1..Len(candidates) : candidates[i].source = "Common Path"

C17_Survivor ==
    (scanPc = "done") =>
        \A i, j \in 1..Len(candidates) :
            (/\ candidates[i].source # "Common Path"
             /\ candidates[j].source = "Common Path"
             /\ Normalize(candidates[i].path) = Normalize(candidates[j].path))
            => /\ \E k \in 1..Len(results) :
                      Normalize(results[k].path) = Normalize(candidates[j].path)
               /\ \A k \in 1..Len(results) :
                      (Normalize(results[k].path) = Normalize(candidates[j].path))
                      => results[k].source # "Common Path"

\* C17: detect_game_paths concatenates the scanners' results in the order Steam,
\* GOG, Epic, then the static common paths last (those alone off Windows), so
\* when a platform scanner and the static scanner yield the same normalized path
\* the one surviving entry carries the platform scanner's source, never
\* "Common Path".
C17_Sequencing == C17_Order /\ C17_Survivor
\* Steam and the static scanner found the same directory under different
\* spellings, and the survivor is the Steam entry.
C17_Witness ==
    /\ scanPc = "done"
    /\ \E i, j \in 1..Len(candidates) : \E k \in 1..Len(results) :
           /\ candidates[i].source = "Steam"
           /\ candidates[j].source = "Common Path"
           /\ candidates[i].path # candidates[j].path
           /\ Normalize(candidates[i].path) = Normalize(candidates[j].path)
           /\ results[k] = candidates[i]
    /\ \E k \in 1..Len(results) : results[k].source = "Common Path"

\* ------------------------------------------------------ extraction properties

\* The positions of the quote characters of a line.
QuotesOf(line) == {i \in 1..Len(line) : line[i] = Quote}

\* v is the text strictly between the last two quote characters of the line.
BetweenLastTwo(line, v) ==
    \E p, q \in QuotesOf(line) :
        /\ p < q
        /\ \A k \in QuotesOf(line) : k <= p \/ k = q
        /\ v = [i \in 1..(q - p - 1) |-> line[p + i]]

\* C19 as stated: with at least four quote characters on the line the text
\* between the last two of them is returned, with fewer nothing is.
C19_AsStated ==
    vdfValue.called =>
        IF Cardinality(QuotesOf(vdfLine)) >= 4
        THEN vdfValue.value.some /\ BetweenLastTwo(vdfLine, vdfValue.value.value)
        ELSE ~vdfValue.value.some

\* C19: for a line with at least four quote characters whose last two quotes
\* are not adjacent, extract_vdf_value returns the text strictly between the
\* last two quote characters; for a line with fewer than four quote characters,
\* or whose last two quotes enclose nothing, it returns None.
C19_Extract ==
    vdfValue.called =>
        IF /\ Cardinality(QuotesOf(vdfLine)) >= 4
           /\ ~BetweenLastTwo(vdfLine, <<>>)
        THEN vdfValue.value.some /\ BetweenLastTwo(vdfLine, vdfValue.value.value)
        ELSE ~vdfValue.value.some
\* "path"<tab>"D:" yields D:.
C19_Witness ==
    /\ vdfLine = <<Quote, "path", Quote, Tab, Quote, "D:", Quote>>
    /\ vdfValue.called /\ vdfValue.value = Some(<<"D:">>)

\* ---------------------------------------------------------- launch properties

C10_AfterCall ==
    lastLaunch.called =>
        /\ (lastLaunch.result = "Game executable not found") =>
               (~lastLaunch.program.some /\ lastLaunch.args = <<>>)
        /\ (lastLaunch.result \in {"Ok", "Failed to launch game"}) =>
               /\ lastLaunch.program
                      = Some(Join(lastLaunch.install_path, lastLaunch.exe_relative_path))
               /\ lastLaunch.args = (IF lastLaunch.launch_args.some
                                     THEN lastLaunch.launch_args.value ELSE <<>>)
               /\ ~lastLaunch.waited
C10_Call ==
    (launches' = launches + 1) =>
        LET exe_path == Join(lastLaunch'.install_path, lastLaunch'.exe_relative_path)
        IN IF Canon(exe_path) \in files
           THEN /\ spawned' = spawned + 1
                /\ lastLaunch'.result \in {"Ok", "Failed to launch game"}
           ELSE /\ spawned' = spawned
                /\ lastLaunch'.result = "Game executable not found"

\* C10: a launch_game call whose joined path does not exist returns the
\* executable-not-found error and spawns nothing; when the file exists the call
\* makes exactly one spawn attempt, of that file with the given arguments, and
\* returns Ok without waiting for the child, or the spawn-failed error.
C10_Launch == []C10_AfterCall /\ [][C10_Call]_vars
C10_Witness ==
    /\ launches = 2
    /\ spawned = 1
    /\ lastLaunch.result = "Game executable not found"
    /\ ~IsAbsolute(lastLaunch.exe_relative_path)

\* ------------------------------------------------------ supervisor properties

Ready == Count(emitted, "backend-ready")
StartupFailed == Count(emitted, "backend-startup-failed")
Crashed == Count(emitted, "backend-crashed")

C1_Progress ==
    /\ attemptsMade <= max_attempts
    /\ (successes = 0 /\ pollPc = "attempt") => attemptsMade = attempt - 1
    /\ (successes = 0 /\ pollPc = "sleep") => attemptsMade = attempt
    /\ (successes = 0 /\ pollPc \in {"attempt", "sleep", "exhausted"}) =>
           (Ready = 0 /\ StartupFailed = 0)
    /\ (successes = 0 /\ pollPc \in {"exhausted", "done"}) =>
           attemptsMade = max_attempts
    /\ (successes = 0 /\ pollPc = "done") => (StartupFailed = 1 /\ Ready = 0)
C1_NoFurther ==
    (pollPc = "done") => (pollPc' = "done" /\ attemptsMade' = attemptsMade)

\* C1: a health poll in which no attempt succeeds performs exactly max_attempts
\* (60) attempts, each failed attempt moving on to the next; it then emits
\* backend-startup-failed exactly once, never backend-ready, and performs no
\* further attempt once it has ended.
C1_Exhaustion == []C1_Progress /\ [][C1_NoFurther]_vars
C1_Witness ==
    pollPc = "done" /\ successes = 0 /\ attemptsMade = max_attempts /\ StartupFailed = 1

C2_AtSuccess ==
    (successes > 0) =>
        /\ successes = 1
        /\ pollPc = "done"
        /\ attempt \in 1..max_attempts
        /\ attemptsMade = attempt
        /\ Ready = 1
        /\ StartupFailed = 0
C2_NoFurther ==
    (successes > 0) => (attemptsMade' = attemptsMade /\ successes' = successes)

\* C2: when the first successful health attempt is attempt k (1 <= k <= 60) the
\* poll emits backend-ready exactly once, makes no attempt after k and never
\* emits backend-startup-failed.
C2_Success == []C2_AtSuccess /\ [][C2_NoFurther]_vars
C2_Witness ==
    successes = 1 /\ attempt = max_attempts /\ attemptsMade = max_attempts /\ Ready = 1

C3_NoHandle == (terminateCalls > 0) => child = 0
C3_NoOp ==
    (terminateCalls' = terminateCalls + 1 /\ child = 0) =>
        /\ child' = 0
        /\ kills' = kills
        /\ worker' = worker
        /\ rx' = rx
        /\ emitted' = emitted

\* C3: after terminate() (kill_sidecar) has been called, once, twice in a row or
\* with no worker ever spawned, SidecarState holds no handle; a terminate() that
\* finds no handle issues no kill and changes nothing but the call itself.
C3_Idempotent == []C3_NoHandle /\ [][C3_NoOp]_vars
C3_Witness ==
    terminateCalls = 2 /\ spawnResult = "ok" /\ child = 0 /\ Len(kills) = 1

C4_State ==
    /\ (setupPc = "start") => child = 0
    /\ spawnCount <= 1
    /\ child \in {0, spawnCount}
    /\ Len(kills) <= 1
    /\ (child # 0) => kills = <<>>
C4_Store ==
    (child = 0 /\ child' # 0) =>
        (spawnCount = 0 /\ spawnCount' = 1 /\ kills = <<>> /\ terminateCalls = 0)
C4_Clear ==
    (child # 0 /\ child' = 0) => (kills = <<>> /\ Len(kills') = 1)

\* C4: SidecarState starts empty; the handle goes from absent to present at most
\* once (on spawn) and from present to absent at most once (on terminate), is
\* never stored again after being cleared, and never is there more than the one
\* handle of the one worker.
C4_Lifecycle == []C4_State /\ [][C4_Store /\ C4_Clear]_vars
C4_Witness ==
    spawnCount = 1 /\ child = 0 /\ Len(kills) = 1 /\ winEvents = MaxWindowEvents

\* C5: when spawn() returned Ok, once Destroyed of the main window has been
\* handled a kill has been issued to the spawned worker and SidecarState holds
\* no handle.
C5_Cleanup ==
    (spawnResult = "ok" /\ mainDestroyed) =>
        /\ child = 0
        /\ Len(kills) = 1
        /\ kills[1].handle = spawnCount
C5_Witness ==
    spawnResult = "ok" /\ mainDestroyed /\ Len(kills) = 1 /\ worker = "killed"

\* C6: when the worker has terminated after a successful spawn, backend-crashed
\* is emitted: once the relay task has ended nothing can emit it any more, so it
\* has been emitted by then; and the worker is never spawned a second time.
C6_CrashReported ==
    /\ (worker \in {"exited", "killed"} /\ relayPc = "done") => Crashed >= 1
    /\ spawnCount <= 1

C7_Safety ==
    (spawnResult = "err") =>
        /\ setupPc = "done"
        /\ child = 0
        /\ worker = "none"
        /\ spawnCount = 0
        /\ relayPc = "none"
        /\ pollPc = "none"
        /\ Ready = 0
        /\ Crashed = 0
        /\ failPc \in {"sleeping", "done"}
        /\ StartupFailed = (IF failPc = "done" THEN 1 ELSE 0)

\* C7: when spawn() fails, it returns Err, stores no handle and starts neither
\* the output relay nor the health poll; the delayed thread then emits exactly
\* one backend-startup-failed, and neither backend-ready nor backend-crashed is
\* ever emitted; setup itself still completes.
C7_SpawnFailure ==
    /\ []C7_Safety
    /\ (spawnResult = "err") ~> (emitted = <<"backend-startup-failed">>)
C7_Witness ==
    spawnResult = "err" /\ failPc = "done" /\ StartupFailed = 1 /\ winEvents > 0

\* ------------------------------------------------------------ relay properties

\* A step in which the relay task handled the event at the head of the channel.
RelayStep == relayed' = relayed + 1

\* A step in which spawn_sidecar started the worker process.
SpawnStep == worker = "none" /\ worker' = "running"

\* A step in which kill_sidecar was called.
TerminateStep == terminateCalls' = terminateCalls + 1

C12_Terminated ==
    RelayStep /\ Head(rx) = "Terminated" =>
        /\ emitted' = Append(emitted, "backend-crashed")
        /\ relayPc' = "done"

C12_Stopped ==
    relayPc = "done" =>
        /\ relayPc' = "done"
        /\ relayed' = relayed
        /\ Count(emitted', "backend-crashed") = Count(emitted, "backend-crashed")

\* C12: on the first Terminated event the relay task emits backend-crashed and
\* stops, whether the worker exited on its own or was killed by kill_sidecar;
\* backend-crashed is emitted at most once, and once the task has stopped it
\* relays no further event.
C12_RelayTerminal ==
    /\ [](Crashed <= 1)
    /\ [][C12_Terminated /\ C12_Stopped]_vars
\* The worker was killed by kill_sidecar after some output had been relayed, and
\* the relay reported the termination.
C12_Witness ==
    /\ worker = "killed" /\ relayPc = "done" /\ relayed >= 2
    /\ emitted # <<>> /\ emitted[Len(emitted)] = "backend-crashed"
\* The same for a worker that exited on its own.
C12_WitnessExit == worker = "exited" /\ relayPc = "done" /\ Crashed = 1

C13_Error ==
    RelayStep /\ Head(rx) = "Error" =>
        /\ relayPc' = "done"
        /\ emitted' = emitted

C13_Output ==
    RelayStep /\ Head(rx) \in {"Stdout", "Stderr"} =>
        /\ relayPc' = "running"
        /\ rx' = Tail(rx)
        /\ emitted' = emitted

\* C13: on an Error event the relay task stops without emitting any GUI event;
\* a Stdout or Stderr event emits no GUI event and leaves the task running.
C13_RelayError == [][C13_Error /\ C13_Output]_vars
\* An Error event stopped the task while the worker was running, with nothing
\* emitted.
C13_Witness ==
    /\ relayPc = "done" /\ relayed = 1 /\ produced = 1
    /\ worker = "running" /\ emitted = <<>>
\* An output line was relayed and the task went on to relay the termination.
C13_WitnessOutput == relayPc = "done" /\ relayed = 2 /\ produced = 1 /\ Crashed = 1

\* C14: no process I/O is performed while the BackendProcess lock is held: every
\* child.kill() is issued after the MutexGuard has been released.
C14_NoKillUnderLock == \A i \in 1..Len(kills) : ~kills[i].lockHeld

\* ----------------------------------------------------- task independence

\* A step of the health poll thread.
PollStep == PollAttempt \/ PollSleep \/ PollExhausted

\* The poll thread can always take its next step, whatever the worker, the
\* relay task and the stored handle are.
C15_NotBlocked ==
    pollPc \in {"attempt", "sleep", "exhausted"} => ENABLED PollStep

\* The relay task, kill_sidecar and the worker's end do not touch the poll.
C15_Untouched ==
    (RelayStep \/ TerminateStep \/ (worker = "running" /\ worker' # "running")) =>
        UNCHANGED <<pollPc, attempt, attemptsMade, successes>>

\* C15: the health poll is not cancelled by the relay task's terminal event nor
\* by kill_sidecar: their steps leave the poll's state alone and the poll stays
\* able to step until its own end, so a run that emits backend-crashed and,
\* after all 60 attempts, backend-startup-failed is reachable.
C15_NoCancellation ==
    /\ []C15_NotBlocked
    /\ [][C15_Untouched]_vars
\* The worker was killed before readiness: backend-crashed, then 60 failed
\* attempts, then backend-startup-failed.
C15_Witness ==
    /\ emitted = <<"backend-crashed", "backend-startup-failed">>
    /\ attemptsMade = max_attempts /\ pollPc = "done"
    /\ worker = "killed" /\ mainDestroyed

\* ------------------------------------------------------- startup outcomes

C16_Exclusive ==
    /\ Ready <= 1
    /\ StartupFailed <= 1
    /\ ~(Ready >= 1 /\ StartupFailed >= 1)
    /\ (pollPc = "done") => (Ready + StartupFailed = 1)

\* C16: backend-ready and backend-startup-failed are never both emitted and
\* each is emitted at most once, across the health poll and the spawn-failure
\* thread; after a successful spawn the poll eventually ends having emitted
\* exactly one of them.
C16_Outcome ==
    /\ []C16_Exclusive
    /\ (spawnResult = "ok") ~> (pollPc = "done" /\ Ready + StartupFailed = 1)
\* The poll succeeded on its second attempt: backend-ready alone was emitted.
C16_Witness ==
    /\ spawnResult = "ok" /\ pollPc = "done" /\ attemptsMade = 2
    /\ Ready = 1 /\ StartupFailed = 0 /\ failPc = "none"

\* ------------------------------------------------------ terminate properties

C18_Take ==
    TerminateStep /\ child # 0 =>
        /\ child' = 0
        /\ Len(kills') = Len(kills) + 1
        /\ SubSeq(kills', 1, Len(kills)) = kills
        /\ kills'[Len(kills')].handle = child
        /\ emitted' = emitted
        /\ winEvents' = winEvents + 1

C18_Cleared ==
    /\ (kills # <<>>) => child = 0
    /\ \A i, j \in 1..Len(kills) : (i # j) => kills[i].handle # kills[j].handle

\* C18: kill_sidecar with a handle stored takes the handle out of
\* BackendProcess and issues exactly one child.kill() to that worker; whether
\* the kill succeeds or fails the handler completes, the stored handle stays
\* None and no second kill is issued for the same handle.
C18_Terminate ==
    /\ []C18_Cleared
    /\ [][C18_Take]_vars
\* The kill failed, the worker is still running, and a second destruction of
\* the main window issued no further kill.
C18_Witness ==
    /\ Len(kills) = 1 /\ ~kills[1].ok /\ kills[1].handle = 1
    /\ worker = "running" /\ child = 0 /\ terminateCalls = 2

\* --------------------------------------------------------- frame properties

\* A step in which the GUI shell delivered a window event.
WindowStep == winEvents' = winEvents + 1

\* A step of the health poll thread or of the output relay task.
TaskStep ==
    \/ RelayStep
    \/ attemptsMade' # attemptsMade
    \/ (pollPc \in {"sleep", "exhausted"} /\ pollPc' # pollPc)

\* As long as Destroyed was not delivered for the main window, whatever other
\* window events were, the handle stored at the spawn is still stored and no
\* kill was issued.
C20_OnlyMain ==
    ~mainDestroyed =>
        /\ kills = <<>>
        /\ terminateCalls = 0
        /\ worker # "killed"
        /\ child = (IF spawnResult = "ok" THEN spawnCount ELSE 0)

\* The stored handle is cleared, and a kill issued, only in a window-event step
\* with Destroyed delivered for the main window; poll and relay steps do neither.
C20_Steps ==
    /\ (kills' # kills \/ (child # 0 /\ child' # child)) => (WindowStep /\ mainDestroyed')
    /\ TaskStep => (child' = child /\ kills' = kills)

\* C20: a window event other than Destroyed on the window "main" (Destroyed on
\* another window included) and every step of the health poll and of the output
\* relay leave BackendProcess.child unchanged and issue no kill; so do the
\* steps of detect_game_paths and launch_game (C20_Scan and C20_Launch below,
\* under SpecScan and SpecLaunch).
C20_Frame ==
    /\ []C20_OnlyMain
    /\ [][C20_Steps]_vars
\* Two window events other than Destroyed on "main" were handled and both tasks
\* ran to their end: the handle is still stored and no kill was issued.
C20_Witness ==
    /\ winEvents = MaxWindowEvents /\ ~mainDestroyed
    /\ relayPc = "done" /\ pollPc = "done"
    /\ child = 1 /\ kills = <<>> /\ worker = "exited"

\* detect_game_paths and launch_game take no AppHandle: their steps leave the
\* whole supervisor state alone.
C20_Scan == [][UNCHANGED <<child, kills, worker>>]_vars
C20_Launch == [][launches' # launches => UNCHANGED <<child, kills, worker>>]_vars

\* ---------------------------------------------------- lock failure properties

C11_Spawn ==
    SpawnStep /\ poisoned =>
        /\ spawnResult' = "ok"
        /\ child' = child
        /\ relayPc' = "running"
        /\ pollPc' = "attempt" /\ attempt' = 1
        /\ failPc' = failPc /\ emitted' = emitted

C11_Terminate ==
    TerminateStep /\ poisoned =>
        /\ child' = child
        /\ kills' = kills
        /\ worker' = worker
        /\ emitted' = emitted

\* C11: when the BackendProcess lock cannot be acquired, spawn_sidecar still
\* returns Ok and starts the output relay and the health poll with the stored
\* handle unchanged, and kill_sidecar leaves the stored handle unchanged and
\* issues no kill; no error is propagated (the startup-failure thread is not
\* started, nothing is emitted).
C11_LockFailure == [][C11_Spawn /\ C11_Terminate]_vars
\* The lock fails at the spawn and again at the destruction of the main window.
C11_Witness ==
    /\ poisoned /\ spawnResult = "ok" /\ relayPc # "none" /\ pollPc # "none"
    /\ mainDestroyed /\ child = 0 /\ kills = <<>> /\ worker = "running"
\* The lock fails only after the handle was stored: it stays stored, unkilled.
C11_WitnessStored == poisoned /\ mainDestroyed /\ child # 0 /\ kills = <<>>

====
